---- MODULE Spec2Model ----
(***************************************************************************)
(* TrackMyCareer-AI: the upload form (OnboardingCard), the App shell, the   *)
(* Node relay (POST /analyze) and the Dashboard's derived state.            *)
(*                                                                         *)
(* JavaScript values are tagged records [t |-> <typeof-like tag>, v |-> a   *)
(* tuple holding the content].  Objects are records over a fixed key set,   *)
(* an absent key holding Undef.  Fractional numbers (salary series) are     *)
(* scaled by ten.                                                           *)
(***************************************************************************)
EXTENDS Integers, Sequences, FiniteSets, TLC

(* ------------------------------ bounds --------------------------------- *)

\* number of upload requests the user may issue in one run
MaxReqs == 2

\* number of role options the user picks from
NumRoles == 1

ReqIds == 1..MaxReqs

(* --------------------------- JavaScript values ------------------------- *)

Undef == [t |-> "undefined", v |-> <<>>]
Null == [t |-> "null", v |-> <<>>]
Num(n) == [t |-> "number", v |-> <<n>>]
Str(s) == [t |-> "string", v |-> <<s>>]
Arr(s) == [t |-> "array", v |-> s]
Obj(r) == [t |-> "object", v |-> <<r>>]

\* Array.isArray(x)
IsArray(x) == x.t = "array"

\* typeof x
TypeOf(x) == IF x.t \in {"null", "array", "object"} THEN "object" ELSE x.t

\* the truthiness of x (as used by !x, x || y, x && y)
Truthy(x) ==
  CASE x.t \in {"undefined", "null"} -> FALSE
    [] x.t = "number" -> x.v[1] # 0
    [] x.t = "string" -> x.v[1] # ""
    [] OTHER -> TRUE

\* x.k for an object x; undefined for a key x does not have
Get(x, k) == IF x.t = "object" /\ k \in DOMAIN x.v[1] THEN x.v[1][k] ELSE Undef

\* Object.keys(x) of an object x
Keys(x) == IF x.t = "object" THEN {k \in DOMAIN x.v[1] : x.v[1][k].t # "undefined"} ELSE {}

(* ------------------------- AnalysisResult payloads --------------------- *)

AnalysisKeys == {"skills", "ats", "role_recommendations", "learning_plan", "projects",
                 "missing_skills", "match_percent", "summary_text", "chart"}

HorizonKeys == {"30_days", "60_days", "90_days"}

Role(title, reason, readiness) ==
  Obj([title |-> Str(title), reason |-> Str(reason), readiness |-> Num(readiness)])

\* a complete payload
AnalysisFull ==
  Obj([skills |-> Arr(<<Str("Python"), Str("SQL")>>),
       ats |-> Obj([ats_score |-> Num(80), matched |-> Num(8), total |-> Num(10),
                    matched_keywords |-> Arr(<<Str("Python")>>)]),
       role_recommendations |-> Arr(<<Role("Data Scientist", "strong Python", 72),
                                      Role("Data Analyst", "solid SQL", 65)>>),
       learning_plan |-> Obj([k \in HorizonKeys |->
                                IF k = "30_days"
                                  THEN Arr(<<Obj([task |-> Str("Learn Spark")])>>)
                                  ELSE Undef]),
       projects |-> Arr(<<Obj([title |-> Str("Churn model"),
                               description |-> Str("Predict churn"),
                               tech_stack |-> Arr(<<Str("Python")>>)])>>),
       missing_skills |-> Arr(<<Str("Spark")>>),
       match_percent |-> Num(60),
       summary_text |-> Str("Good fit"),
       chart |-> Obj([salary |-> Arr(<<Num(40), Num(50), Num(60), Num(70), Num(80)>>),
                      demand |-> Arr(<<Num(65), Num(90)>>)])])

\* a payload without recommendations and without chart
AnalysisSparse ==
  Obj([k \in AnalysisKeys |->
         CASE k = "skills" -> Arr(<<Str("Excel")>>)
           [] k = "role_recommendations" -> Arr(<<>>)
           [] k = "match_percent" -> Num(40)
           [] k = "summary_text" -> Str("Early career")
           [] OTHER -> Undef])

\* the payload {}
AnalysisEmpty == Obj([k \in AnalysisKeys |-> Undef])

\* what the analysis backend may answer with a 2xx status
BackendBodies == {AnalysisFull, AnalysisSparse, AnalysisEmpty, Null}

\* the relay's error envelope
ErrorBody(msg) == Obj([error |-> Str(msg)])


(* ------------------------- Dashboard derived state --------------------- *)

\* the useState initial values of Dashboard
DashInit ==
  [skills |-> Arr(<<>>),
   ats |-> Obj([ats_score |-> Num(0), matched |-> Num(0), total |-> Num(0),
                matched_keywords |-> Arr(<<>>)]),
   roles |-> Arr(<<>>),
   plan |-> Obj([k \in HorizonKeys |-> Undef]),
   projects |-> Arr(<<>>),
   missingSkills |-> Arr(<<>>),
   matchPercent |-> Num(0),
   summaryText |-> Str(""),
   selectedRole |-> Null,
   activeDay |-> "30_days",
   salaryData |-> Arr(<<Num(60), Num(65), Num(72), Num(81), Num(90)>>),
   demandData |-> Arr(<<Num(70), Num(85)>>)]

\* the fallback object of setAts: it has no matched_keywords
AtsFallback ==
  Obj([ats_score |-> Num(0), matched |-> Num(0), total |-> Num(0),
       matched_keywords |-> Undef])

\* analysis.chart?.salary, analysis.chart?.demand
ChartSeries(a, k) ==
  LET c == Get(a, "chart") IN IF c.t \in {"undefined", "null"} THEN Undef ELSE Get(c, k)

\* (mutant) the recommendation itself is taken, never its title
TitleOf_Whole(r) == r

\* r.title || r
TitleOf(r) == IF Truthy(Get(r, "title")) THEN Get(r, "title") ELSE r

\* the body of the Dashboard's useEffect, run with the analysis prop a on the
\* component state cur
DashboardEffect(cur, a) ==
  IF ~Truthy(a) \/ Keys(a) = {}
    THEN cur
    ELSE LET rr == Get(a, "role_recommendations")
             sal == ChartSeries(a, "salary")
             dem == ChartSeries(a, "demand")
         IN [skills |-> IF IsArray(Get(a, "skills")) THEN Get(a, "skills") ELSE Arr(<<>>),
             ats |-> IF TypeOf(Get(a, "ats")) = "object" THEN Get(a, "ats") ELSE AtsFallback,
             roles |-> IF IsArray(rr) THEN rr ELSE Arr(<<>>),
             plan |-> IF TypeOf(Get(a, "learning_plan")) = "object"
                        THEN Get(a, "learning_plan")
                        ELSE Obj([k \in HorizonKeys |-> Undef]),
             projects |-> IF IsArray(Get(a, "projects")) THEN Get(a, "projects") ELSE Arr(<<>>),
             missingSkills |-> IF IsArray(Get(a, "missing_skills"))
                                 THEN Get(a, "missing_skills") ELSE Arr(<<>>),
             matchPercent |-> IF TypeOf(Get(a, "match_percent")) = "number"
                                THEN Get(a, "match_percent") ELSE Num(0),
             summaryText |-> IF Truthy(Get(a, "summary_text"))
                               THEN Get(a, "summary_text") ELSE Str(""),
             selectedRole |-> IF IsArray(rr) /\ Len(rr.v) > 0
                                THEN TitleOf(rr.v[1]) ELSE cur.selectedRole,
             activeDay |-> cur.activeDay,
             salaryData |-> IF Truthy(sal) /\ IsArray(sal) THEN sal ELSE cur.salaryData,
             demandData |-> IF Truthy(dem) /\ IsArray(dem) THEN dem ELSE cur.demandData]

(* --------------------------- Dashboard render -------------------------- *)

\* x is null or undefined: reading a property of x throws a TypeError
Nullish(x) == x.t \in {"undefined", "null"}

\* x.length > 0 for a string or an array x; false for a value without length
HasLength(x) ==
  CASE x.t = "string" -> x.v[1] # ""
    [] x.t = "array" -> Len(x.v) > 0
    [] OTHER -> FALSE

\* LearningPlan({plan, dayKey}): the message for a missing or empty list, the
\* roadmap otherwise; week.task throws for a null entry
LearningPlan(plan, dayKey) ==
  LET got == Get(plan, dayKey)
      items == IF Truthy(got) THEN got ELSE Arr(<<>>)
  IN IF ~IsArray(items) \/ Len(items.v) = 0
       THEN "generating"
       ELSE IF \E i \in 1..Len(items.v) : Nullish(items.v[i]) THEN "throws" ELSE "roadmap"

\* (mutant) the block renders LearningPlan whatever plan[activeDay] is
PlanView_Always(d) ==
  IF Nullish(d.plan) THEN "throws" ELSE LearningPlan(d.plan, d.activeDay)

\* what the learning-plan block shows: plan?.[activeDay] ? <LearningPlan/> :
\* "Learning plan not available yet."
PlanView(d) ==
  LET cur == IF Nullish(d.plan) THEN Undef ELSE Get(d.plan, d.activeDay)
  IN IF Truthy(cur) THEN LearningPlan(d.plan, d.activeDay) ELSE "placeholder"

\* the ATS section: ats.ats_score, ats.matched, ats.total and
\* ats.matched_keywords?.length > 0 && ats.matched_keywords.join(", ")
AtsSectionThrows(d) ==
  \/ Nullish(d.ats)
  \/ LET mk == Get(d.ats, "matched_keywords") IN HasLength(mk) /\ ~IsArray(mk)

\* the recommendations grid: r.title for every r of roles
RolesSectionThrows(d) == \E i \in 1..Len(d.roles.v) : Nullish(d.roles.v[i])

\* ProjectSuggestions: p.title and p.tech_stack.map for every p of projects
ProjectsSectionThrows(d) ==
  \E i \in 1..Len(d.projects.v) :
    LET pr == d.projects.v[i]
    IN Nullish(pr) \/ (HasLength(Get(pr, "tech_stack")) /\ ~IsArray(Get(pr, "tech_stack")))

\* the role-summary section, rendered while selectedRole is truthy: an object
\* is not a valid React child; the learning-plan block is inside it
SummarySectionThrows(d) ==
  Truthy(d.selectedRole) /\ (d.selectedRole.t = "object" \/ PlanView(d) = "throws")

\* rendering Dashboard from the state d throws
RenderThrows(d) ==
  \/ d.summaryText.t = "object"
  \/ RolesSectionThrows(d)
  \/ ProjectsSectionThrows(d)
  \/ AtsSectionThrows(d)
  \/ SummarySectionThrows(d)

\* the role the role-summary section names; Null for "No role selected"
SummaryRole(d) == IF Truthy(d.selectedRole) THEN d.selectedRole ELSE Null

\* const percentAway = 100 - (matchPercent || 0)
PercentAway(d) == Num(100 - (IF Truthy(d.matchPercent) THEN d.matchPercent.v[1] ELSE 0))

\* ROLE_SALARY_MAP[role]; undefined for a role outside the map
RoleSalaryMap(role) ==
  CASE role = Str("Data Analyst") -> Arr(<<Num(40), Num(50), Num(60), Num(70), Num(80)>>)
    [] role = Str("Data Scientist") -> Arr(<<Num(60), Num(80), Num(100), Num(120), Num(140)>>)
    [] role = Str("Machine Learning Engineer") -> Arr(<<Num(70), Num(90), Num(120), Num(140), Num(160)>>)
    [] role = Str("Frontend Developer") -> Arr(<<Num(50), Num(60), Num(70), Num(80), Num(90)>>)
    [] role = Str("Backend Developer") -> Arr(<<Num(60), Num(75), Num(90), Num(110), Num(130)>>)
    [] role = Str("Full Stack Developer") -> Arr(<<Num(60), Num(70), Num(80), Num(95), Num(110)>>)
    [] role = Str("MLOps Engineer") -> Arr(<<Num(70), Num(90), Num(110), Num(130), Num(150)>>)
    [] role = Str("Cloud Engineer") -> Arr(<<Num(70), Num(85), Num(100), Num(120), Num(140)>>)
    [] OTHER -> Undef

\* ROLE_DEMAND_MAP[role]; undefined for a role outside the map
RoleDemandMap(role) ==
  CASE role = Str("Data Analyst") -> Arr(<<Num(70), Num(85)>>)
    [] role = Str("Data Scientist") -> Arr(<<Num(65), Num(90)>>)
    [] role = Str("Machine Learning Engineer") -> Arr(<<Num(60), Num(95)>>)
    [] role = Str("Backend Developer") -> Arr(<<Num(75), Num(88)>>)
    [] role = Str("Frontend Developer") -> Arr(<<Num(80), Num(85)>>)
    [] role = Str("Full Stack Developer") -> Arr(<<Num(78), Num(92)>>)
    [] role = Str("MLOps Engineer") -> Arr(<<Num(50), Num(80)>>)
    [] role = Str("Cloud Engineer") -> Arr(<<Num(60), Num(90)>>)
    [] OTHER -> Undef

\* SalaryTrendChart({ role }): the series it draws; it reads props.role only
SalaryTrendChart(props) ==
  LET values == RoleSalaryMap(props.role)
  IN IF Truthy(values) THEN values ELSE Arr(<<Num(60), Num(65), Num(72), Num(81), Num(90)>>)

\* DemandBarChart({ role }): the series it draws; it reads props.role only
DemandBarChart(props) ==
  LET values == RoleDemandMap(props.role)
  IN IF Truthy(values) THEN values ELSE Arr(<<Num(70), Num(85)>>)

\* <SalaryTrendChart data={salaryData} /> as Dashboard renders it
RenderedSalary(d) == SalaryTrendChart([data |-> d.salaryData, role |-> Undef])

\* <DemandBarChart data={demandData} /> as Dashboard renders it
RenderedDemand(d) == DemandBarChart([data |-> d.demandData, role |-> Undef])

(* ------------------------------ the state ----------------------------- *)

VARIABLES
  isProcessing,   \* App: useState(false)
  showIntro,      \* App: useState(true)
  analysis,       \* App: useState(null)
  card,           \* OnboardingCard: resumeText, file, role (while mounted)
  dashboard,      \* Dashboard: its useState cells (while mounted)
  requests,       \* the upload requests: client call, relay handler, response
  disk,           \* the names present in the relay's uploads directory
  alertMsg        \* the alert() raised by the step taken last, if any

vars == <<isProcessing, showIntro, analysis, card, dashboard, requests, disk, alertMsg>>

NoRole == "<null>"
NoFile == "<none>"
NoAlert == "<none>"

\* the values of roleOptions, the options offered by the Select
RoleOptionValues ==
  <<"Data Analyst", "Business Analyst", "Frontend Developer", "Backend Developer",
    "Full Stack Developer", "ML Engineer", "AI Engineer", "Data Scientist",
    "Cybersecurity Analyst", "Cloud Engineer", "DevOps Engineer", "UI/UX Designer",
    "Product Manager", "HR Associate", "Finance Analyst", "Marketing Specialist", "Other">>

\* the options the user picks from in a run
RoleOptions == {RoleOptionValues[i] : i \in 1..NumRoles}

\* files the user can pick or drop
Files == {"resume.pdf"}

\* texts the user can paste
Texts == {"", "Python, SQL"}

\* the useState initial values of OnboardingCard
CardInit == [resumeText |-> "", file |-> NoFile, role |-> NoRole]

\* a request slot that has not been used
NoRequest ==
  [pc |-> "unused", hasFile |-> FALSE, resume_text |-> "", target_role |-> "",
   flagAtIssue |-> FALSE, prior |-> Undef,
   path |-> 0, forwarded |-> FALSE, backend |-> "none", backendData |-> Undef,
   unlinked |-> "no",
   status |-> 0, body |-> Undef, outcome |-> "none"]

\* which component App renders
View(intro, a) ==
  IF intro THEN "intro" ELSE IF ~Truthy(a) THEN "onboarding" ELSE "dashboard"

Init ==
  /\ isProcessing = FALSE
  /\ showIntro = TRUE
  /\ analysis = Null
  /\ card = CardInit
  /\ dashboard = DashInit
  /\ requests = [r \in ReqIds |-> NoRequest]
  /\ disk = {}
  /\ alertMsg = NoAlert

(* --------------------------- App and the form -------------------------- *)

\* IntroSection's onStart
OnStart ==
  /\ View(showIntro, analysis) = "intro"
  /\ showIntro' = FALSE
  /\ alertMsg' = NoAlert
  /\ UNCHANGED <<isProcessing, analysis, card, dashboard, requests, disk>>

\* the textarea's onChange
SetResumeText(t) ==
  /\ View(showIntro, analysis) = "onboarding"
  /\ card' = [card EXCEPT !.resumeText = t]
  /\ alertMsg' = NoAlert
  /\ UNCHANGED <<isProcessing, showIntro, analysis, dashboard, requests, disk>>

\* the file input's onChange; f is NoFile when the picker returns no file
HandleFileChange(f) ==
  /\ View(showIntro, analysis) = "onboarding"
  /\ card' = [card EXCEPT !.file = f]
  /\ alertMsg' = NoAlert
  /\ UNCHANGED <<isProcessing, showIntro, analysis, dashboard, requests, disk>>

\* the drop zone's onDrop; a drop without a file changes nothing
OnDrop(f) ==
  /\ View(showIntro, analysis) = "onboarding"
  /\ card' = IF f # NoFile THEN [card EXCEPT !.file = f] ELSE card
  /\ alertMsg' = NoAlert
  /\ UNCHANGED <<isProcessing, showIntro, analysis, dashboard, requests, disk>>

\* the Select's onChange
SetRole(o) ==
  /\ View(showIntro, analysis) = "onboarding"
  /\ card' = [card EXCEPT !.role = o]
  /\ alertMsg' = NoAlert
  /\ UNCHANGED <<isProcessing, showIntro, analysis, dashboard, requests, disk>>

\* (mutant) the role check is skipped
RoleMissing_Unchecked(c) == FALSE

\* if (!role) return alert(...)
RoleMissing(c) == c.role = NoRole

\* the multipart payload built by handleSubmit
FormData(c) ==
  [resume_text |-> c.resumeText, hasFile |-> c.file # NoFile, target_role |-> c.role]

\* handleSubmit up to its await: the role check, setIsProcessing(true), the
\* payload and axios.post
HandleSubmit ==
  /\ View(showIntro, analysis) = "onboarding"
  /\ IF RoleMissing(card)
       THEN /\ alertMsg' = "Please select a target role"
            /\ UNCHANGED <<isProcessing, showIntro, analysis, card, dashboard, requests, disk>>
       ELSE \E r \in ReqIds :
              /\ requests[r].pc = "unused"
              /\ \A q \in ReqIds : q < r => requests[q].pc # "unused"
              /\ LET flag == TRUE
                     form == FormData(card)
                 IN /\ isProcessing' = flag
                    /\ requests' = [requests EXCEPT ![r] =
                         [NoRequest EXCEPT !.pc = "sent",
                                           !.hasFile = form.hasFile,
                                           !.resume_text = form.resume_text,
                                           !.target_role = form.target_role,
                                           !.flagAtIssue = flag,
                                           !.prior = analysis]]
              /\ alertMsg' = NoAlert
              /\ UNCHANGED <<showIntro, analysis, card, dashboard, disk>>

\* (mutant) there is no finally block
FinallyProcessing_Absent(cur) == cur

\* the value of the processing flag left by the finally block
FinallyProcessing(cur) == FALSE

\* the request's record once the client is done with it
Settled(outcome) == [NoRequest EXCEPT !.pc = "done", !.outcome = outcome]

\* handleSubmit after its await, request fulfilled with a 2xx response:
\* onAnalyze(response.data), that is App.handleAnalyze, then finally; then
\* App renders and the Dashboard's effect runs
HandleSubmitResolved(r) ==
  /\ requests[r].pc = "responded"
  /\ requests[r].status = 200
  /\ LET data == requests[r].body
         prev == View(showIntro, analysis)
         next == View(FALSE, data)
     IN /\ isProcessing' = FinallyProcessing(FALSE)
        /\ analysis' = data
        /\ showIntro' = FALSE
        /\ card' = IF next = "onboarding" /\ prev = "onboarding" THEN card ELSE CardInit
        /\ dashboard' = IF next = "dashboard"
                          THEN DashboardEffect(IF prev = "dashboard" THEN dashboard
                                                                    ELSE DashInit, data)
                          ELSE DashInit
  /\ requests' = [requests EXCEPT ![r] = Settled("resolved")]
  /\ alertMsg' = NoAlert
  /\ UNCHANGED disk

\* handleSubmit after its await, request rejected: the request was lost on
\* its way, the response was lost, or the response is not 2xx; catch, finally
HandleSubmitRejected(r) ==
  /\ requests[r].pc \in {"sent", "responded"}
  /\ isProcessing' = FinallyProcessing(isProcessing)
  /\ requests' = [requests EXCEPT ![r] = Settled("rejected")]
  /\ alertMsg' = "Error analyzing resume. Check backend servers."
  /\ UNCHANGED <<showIntro, analysis, card, dashboard, disk>>

(* ------------------------------ the relay ------------------------------ *)

\* (mutant) the relay also takes a pasted text as the resume
FileMissing_TextAccepted(rq) == ~rq.hasFile /\ rq.resume_text = ""

\* if (!req.file) return res.status(400)...
FileMissing(rq) == ~rq.hasFile

\* multer's filename callback: timestamp, random suffix and extension; the
\* name is distinct for every upload
FileName(r) == r

\* multer's upload.single("resume") followed by the /analyze handler up to its
\* await: the file check, the form and axios.post to the analysis backend.
\* The text fields leave the request with the forwarded form: the handler
\* reads only req.file.path after the await.
RelayAnalyze(r) ==
  /\ requests[r].pc = "sent"
  /\ IF FileMissing(requests[r])
       THEN /\ requests' = [requests EXCEPT ![r].pc = "responded",
                                            ![r].status = 400,
                                            ![r].body = ErrorBody("No resume uploaded")]
            /\ UNCHANGED disk
       ELSE /\ disk' = disk \cup {FileName(r)}
            /\ requests' = [requests EXCEPT ![r].pc = "forwarding",
                                            ![r].path = FileName(r),
                                            ![r].resume_text = "",
                                            ![r].target_role = "",
                                            ![r].forwarded = TRUE,
                                            ![r].backend = "pending"]
  /\ alertMsg' = NoAlert
  /\ UNCHANGED <<isProcessing, showIntro, analysis, card, dashboard>>

\* the response of the catch block (response, declared in the try block, is
\* out of scope here)
CatchResponse(rq) ==
  [rq EXCEPT !.pc = "responded", !.status = 500, !.body = ErrorBody("Python backend error"),
             !.backendData = Undef]

\* the handler after its await, backend answered 2xx with body b:
\* fs.unlinkSync(req.file.path), then res.json(response.data).  unlinkSync
\* throws when the file is gone or the file system refuses (unlinkOk false);
\* the throw lands in the catch block.
RelayBackendOk(r, b, unlinkOk) ==
  /\ requests[r].pc = "forwarding"
  /\ LET rq == [requests[r] EXCEPT !.backend = "ok", !.backendData = b]
     IN IF rq.path \in disk /\ unlinkOk
          THEN /\ disk' = disk \ {rq.path}
               /\ requests' = [requests EXCEPT ![r] =
                    [rq EXCEPT !.pc = "responded", !.unlinked = "yes",
                               !.status = 200, !.body = rq.backendData]]
          ELSE /\ disk' = disk
               /\ requests' = [requests EXCEPT ![r] =
                    CatchResponse([rq EXCEPT !.unlinked = "threw"])]
  /\ alertMsg' = NoAlert
  /\ UNCHANGED <<isProcessing, showIntro, analysis, card, dashboard>>

\* the handler after its await, axios.post rejected (network error or a
\* non-2xx answer): the catch block
RelayBackendFailed(r) ==
  /\ requests[r].pc = "forwarding"
  /\ requests' = [requests EXCEPT ![r] = CatchResponse([requests[r] EXCEPT !.backend = "failed"])]
  /\ alertMsg' = NoAlert
  /\ UNCHANGED <<isProcessing, showIntro, analysis, card, dashboard, disk>>

(* ---------------------------- the Dashboard ---------------------------- *)

\* handleRoleClick(r) for the i-th rendered recommendation; the buttons exist
\* while the Dashboard renders
HandleRoleClick(i) ==
  /\ View(showIntro, analysis) = "dashboard"
  /\ ~RenderThrows(dashboard)
  /\ i \in 1..Len(dashboard.roles.v)
  /\ dashboard' = [dashboard EXCEPT !.selectedRole = TitleOf(dashboard.roles.v[i])]
  /\ alertMsg' = NoAlert
  /\ UNCHANGED <<isProcessing, showIntro, analysis, card, requests, disk>>

\* a horizon button's onClick; the buttons are rendered while a role is selected
SetActiveDay(k) ==
  /\ View(showIntro, analysis) = "dashboard"
  /\ ~RenderThrows(dashboard)
  /\ Truthy(dashboard.selectedRole)
  /\ dashboard' = [dashboard EXCEPT !.activeDay = k]
  /\ alertMsg' = NoAlert
  /\ UNCHANGED <<isProcessing, showIntro, analysis, card, requests, disk>>

(* -------------------------- the specification -------------------------- *)

Next ==
  \/ OnStart
  \/ \E t \in Texts : SetResumeText(t)
  \/ \E f \in Files \cup {NoFile} : HandleFileChange(f)
  \/ \E f \in Files \cup {NoFile} : OnDrop(f)
  \/ \E o \in RoleOptions : SetRole(o)
  \/ HandleSubmit
  \/ \E r \in ReqIds : HandleSubmitResolved(r)
  \/ \E r \in ReqIds : HandleSubmitRejected(r)
  \/ \E r \in ReqIds : RelayAnalyze(r)
  \/ \E r \in ReqIds, b \in BackendBodies, unlinkOk \in BOOLEAN : RelayBackendOk(r, b, unlinkOk)
  \/ \E r \in ReqIds : RelayBackendFailed(r)
  \/ \E i \in 1..Len(dashboard.roles.v) : HandleRoleClick(i)
  \/ \E k \in HorizonKeys : SetActiveDay(k)

Spec == Init /\ [][Next]_vars

(* ============================== the relay ============================== *)

\* the relay has sent its response to request r
Responded(r) == requests[r].pc = "responded"

\* request r has been issued and the client has not yet settled it
InFlight(r) == requests[r].pc \in {"sent", "forwarding", "responded"}

\* the generic error envelope: an object whose only key is a string error
IsErrorEnvelope(b) == Keys(b) = {"error"} /\ Get(b, "error").t = "string"

\* C1: for every request that carried a file and whose forwarding call
\* failed, once the response is sent the temp file is gone and the response
\* is a 500 with the generic error body.
C1_ForwardFailureCleansUp ==
  \A r \in ReqIds :
    Responded(r) /\ requests[r].hasFile /\ requests[r].backend = "failed"
      => /\ requests[r].path \notin disk
         /\ requests[r].status = 500
         /\ IsErrorEnvelope(requests[r].body)

\* C2: for every request that carried a file and whose forwarding call
\* succeeded, once the response is sent the temp file is gone, the status is
\* 200 and the body is the backend's body.
C2_ForwardSuccessPassesThrough ==
  \A r \in ReqIds :
    Responded(r) /\ requests[r].hasFile /\ requests[r].backend = "ok"
      => /\ requests[r].path \notin disk
         /\ requests[r].status = 200
         /\ requests[r].body \in BackendBodies
         /\ requests[r].body = requests[r].backendData

\* C3: a failed deletion of the temp file does not change the response: when
\* the backend call succeeded and unlinkSync then threw, the client is still
\* sent status 200 with a backend body.
C3_UnlinkFailureNonFatal ==
  \A r \in ReqIds :
    Responded(r) /\ requests[r].unlinked = "threw"
      => requests[r].status = 200 /\ requests[r].body \in BackendBodies

\* C4: a request without a file is never forwarded and never gets a temp
\* file, and it is answered 400 with {error: string}, whatever its
\* resume_text and target_role.
C4_MissingFileRejected ==
  \A r \in ReqIds :
    InFlight(r) /\ ~requests[r].hasFile
      => /\ ~requests[r].forwarded
         /\ requests[r].pc # "forwarding"
         /\ requests[r].path = 0 /\ FileName(r) \notin disk
         /\ (Responded(r) => requests[r].status = 400 /\ IsErrorEnvelope(requests[r].body))

\* C4 witness: a text-only request with a role has been answered by the relay.
C4_Witness ==
  \E r \in ReqIds :
    /\ Responded(r) /\ ~requests[r].hasFile
    /\ requests[r].resume_text = "Python, SQL" /\ requests[r].target_role \in RoleOptions
    /\ requests[r].status = 400

\* C5: the files in the uploads directory are exactly the temp files of the
\* requests the relay is still working on, one per request: no temp file
\* outlives the response to its request, on any interleaving.
C5_NoTempFileOutlivesRequest ==
  /\ \A r, q \in ReqIds :
       requests[r].pc = "forwarding" /\ requests[q].pc = "forwarding" /\ r # q
         => requests[r].path # requests[q].path
  /\ disk = {requests[r].path : r \in {q \in ReqIds : requests[q].pc = "forwarding"}}

(* ============================ the upload form ========================== *)

\* request r is issued in this step
Issued(r) == requests[r].pc = "unused" /\ requests'[r].pc = "sent"

\* the client settles request r in this step
SettledNow(r) == InFlight(r) /\ requests'[r].pc = "done"

SelectRolePrompt == "Please select a target role"
UploadErrorPrompt == "Error analyzing resume. Check backend servers."

\* C6: while no target role is selected no step issues a request or sets the
\* processing flag, and the step that raises the select-a-role prompt leaves
\* the requests, the processing flag and the analysis as they were.
C6_NoRoleSubmitIsLocal ==
  [][ /\ (View(showIntro, analysis) = "onboarding" /\ card.role = NoRole)
          => /\ \A r \in ReqIds : ~Issued(r)
             /\ (isProcessing' => isProcessing)
      /\ alertMsg' = SelectRolePrompt
          => /\ card.role = NoRole
             /\ requests' = requests
             /\ isProcessing' = isProcessing
             /\ analysis' = analysis ]_vars

\* C6 witness: the prompt has been raised with no role selected and nothing sent.
C6_Witness ==
  /\ alertMsg = SelectRolePrompt /\ card.role = NoRole
  /\ \A r \in ReqIds : requests[r].pc = "unused"
  /\ ~isProcessing

\* C7: the step that issues a request has set the processing flag before the
\* call, and the step in which the request completes, fulfilled or rejected,
\* leaves the flag false.
C7_ProcessingFlagBrackets ==
  [][\A r \in ReqIds :
       /\ (Issued(r) => requests'[r].flagAtIssue /\ isProcessing')
       /\ (SettledNow(r) => ~isProcessing')]_vars

\* C7 witness: one request was rejected and another fulfilled, and the flag is false.
C7_Witness ==
  /\ \E r \in ReqIds : requests[r].outcome = "rejected"
  /\ \E r \in ReqIds : requests[r].outcome = "resolved"
  /\ ~isProcessing

\* C8: when an upload fails, the stored analysis is what it was when the
\* request was submitted, the error prompt is raised and the flag is cleared.
C8_FailureLeavesAnalysis ==
  [][\A r \in ReqIds :
       SettledNow(r) /\ requests'[r].outcome = "rejected"
         => /\ analysis' = requests[r].prior
            /\ alertMsg' = UploadErrorPrompt
            /\ ~isProcessing']_vars

\* C9: at most one upload request is outstanding at any time.
C9_OneOutstandingUpload == Cardinality({r \in ReqIds : InFlight(r)}) <= 1

(* ============================= the Dashboard =========================== *)

\* the derived fields of a Dashboard state: all but the horizon
Derived(d) ==
  [f \in DOMAIN d \ {"activeDay"} |-> d[f]]

\* C10: whenever an analysis arrives at the Dashboard, every derived field is
\* what that analysis alone yields: nothing of an earlier analysis survives.
C10_AnalysisFullyReplaces ==
  [][(analysis' # analysis \/ \E r \in ReqIds : SettledNow(r) /\ requests'[r].outcome = "resolved")
       /\ View(showIntro', analysis') = "dashboard"
         => Derived(dashboard') = Derived(DashboardEffect(DashInit, analysis'))]_vars

(* ------------------ the Dashboard on one received payload ------------- *)

\* the values a field of a received payload may hold in place of its
\* container: null, an array, a number, a string, an object of another shape
Misshapen == {Null, Arr(<<>>), Arr(<<Null>>), Num(7), Str("x"), Obj([x |-> Num(1)])}

\* the payload a with its field k replaced by x
WithField(a, k, x) == Obj([a.v[1] EXCEPT ![k] = x])

\* AnalysisFull with any subset of its fields missing, and AnalysisFull with
\* one field of the wrong shape
DashPayloads ==
  {Obj([k \in AnalysisKeys |-> IF k \in S THEN Undef ELSE AnalysisFull.v[1][k]]) :
     S \in SUBSET AnalysisKeys}
  \cup {WithField(AnalysisFull, k, x) : k \in AnalysisKeys, x \in Misshapen}

\* the state once the first upload has resolved with a payload: App renders
\* the Dashboard, mounted on it
DashStart ==
  /\ isProcessing = FALSE
  /\ showIntro = FALSE
  /\ analysis \in DashPayloads
  /\ card = CardInit
  /\ dashboard = DashboardEffect(DashInit, analysis)
  /\ requests = [r \in ReqIds |-> IF r = 1 THEN Settled("resolved") ELSE NoRequest]
  /\ disk = {}
  /\ alertMsg = NoAlert

DashNext ==
  \/ \E i \in 1..Len(dashboard.roles.v) : HandleRoleClick(i)
  \/ \E k \in HorizonKeys : SetActiveDay(k)

DashSpec == DashStart /\ [][DashNext]_vars

(* ------------------------ Analysis State Store claims ------------------ *)

\* the received payload has no field k
Missing(k) == Get(analysis, k).t = "undefined"

\* C11: on the Dashboard, every field missing from the received payload is
\* derived as its defaulted container (the empty sequence, the empty object,
\* zero, the ATS record with an empty matched_keywords), and no derived field,
\* ats.matched_keywords included, is null or undefined.
C11_MissingFieldsDefaulted ==
  View(showIntro, analysis) = "dashboard" =>
    /\ Missing("skills") => dashboard.skills = Arr(<<>>)
    /\ Missing("ats") => dashboard.ats = DashInit.ats
    /\ Missing("role_recommendations") => dashboard.roles = Arr(<<>>)
    /\ Missing("learning_plan") => Keys(dashboard.plan) = {}
    /\ Missing("projects") => dashboard.projects = Arr(<<>>)
    /\ Missing("missing_skills") => dashboard.missingSkills = Arr(<<>>)
    /\ Missing("match_percent") => dashboard.matchPercent = Num(0)
    /\ Missing("summary_text") => dashboard.summaryText = Str("")
    /\ Missing("ats") => ~Nullish(Get(dashboard.ats, "matched_keywords"))
    /\ Missing("chart") => /\ dashboard.salaryData = DashInit.salaryData
                           /\ dashboard.demandData = DashInit.demandData

\* the declared container (or scalar) type of the payload field k
DeclaredType(k) ==
  CASE k \in {"skills", "role_recommendations", "projects", "missing_skills"} -> "array"
    [] k \in {"ats", "learning_plan"} -> "object"
    [] k = "match_percent" -> "number"

ContainerKeys == {"skills", "role_recommendations", "projects", "missing_skills",
                  "ats", "learning_plan", "match_percent"}

\* the received payload has the field k, with a value of another shape than
\* declared
WrongShape(k) == ~Missing(k) /\ Get(analysis, k).t # DeclaredType(k)

\* C12: on the Dashboard, a field received with the wrong shape for its
\* declared container type (ats or learning_plan as null, an array or a
\* primitive; an array field as a non-array; match_percent as a non-number) is
\* derived as the default, and rendering the Dashboard does not throw.
C12_WrongShapeDefaulted ==
  View(showIntro, analysis) = "dashboard" =>
    /\ WrongShape("skills") => dashboard.skills = Arr(<<>>)
    /\ WrongShape("role_recommendations") => dashboard.roles = Arr(<<>>)
    /\ WrongShape("projects") => dashboard.projects = Arr(<<>>)
    /\ WrongShape("missing_skills") => dashboard.missingSkills = Arr(<<>>)
    /\ WrongShape("match_percent") => dashboard.matchPercent = Num(0)
    /\ WrongShape("ats") =>
         /\ dashboard.ats.t = "object"
         /\ \A f \in {"ats_score", "matched", "total"} : Get(dashboard.ats, f) = Num(0)
    /\ WrongShape("learning_plan") =>
         dashboard.plan.t = "object" /\ Keys(dashboard.plan) = {}
    /\ (\E k \in ContainerKeys : WrongShape(k)) => ~RenderThrows(dashboard)

(* ---------------------------- selected role ---------------------------- *)

\* this step is handleSubmit taking the 2xx response of request r: a fresh
\* analysis result arrives
Arrives(r) ==
  /\ requests[r].pc = "responded"
  /\ requests[r].status = 200
  /\ requests'[r].pc = "done"
  /\ requests'[r].outcome = "resolved"

\* C13: the step on which a fresh analysis result with at least one
\* recommendation arrives leaves selectedRole equal to the title of the first
\* recommendation; selectedRole changes only on the arrival of a result or on
\* a click on a recommendation; a step that selects a horizon leaves it as it
\* was.
C13_SelectedRoleOnFreshAnalysis ==
  [][ /\ \A r \in ReqIds :
           LET rr == Get(requests[r].body, "role_recommendations")
           IN (Arrives(r) /\ IsArray(rr) /\ Len(rr.v) > 0) =>
                dashboard'.selectedRole = Get(rr.v[1], "title")
      /\ (dashboard'.selectedRole # dashboard.selectedRole) =>
           \/ \E r \in ReqIds : Arrives(r)
           \/ \E i \in 1..Len(dashboard.roles.v) :
                /\ dashboard'.selectedRole = Get(dashboard.roles.v[i], "title")
                /\ dashboard'.activeDay = dashboard.activeDay
      /\ ((dashboard'.activeDay # dashboard.activeDay) /\ ~(\E r \in ReqIds : Arrives(r))) =>
           dashboard'.selectedRole = dashboard.selectedRole
    ]_vars

\* the Dashboard holds a role the user chose (not the first recommendation)
\* after a horizon was selected
C13_Witness ==
  /\ View(showIntro, analysis) = "dashboard"
  /\ Len(dashboard.roles.v) > 1
  /\ dashboard.selectedRole = Get(dashboard.roles.v[2], "title")
  /\ dashboard.selectedRole # Get(dashboard.roles.v[1], "title")
  /\ dashboard.activeDay = "60_days"

\* the titles of the recommendations the Dashboard holds
HeldTitles(d) == {TitleOf(d.roles.v[i]) : i \in 1..Len(d.roles.v)}

\* C14: on the Dashboard, selectedRole is unset or the title of one of the
\* recommendations currently held, and the role-summary section names exactly
\* selectedRole.
C14_SelectedRoleInSync ==
  View(showIntro, analysis) = "dashboard" =>
    /\ dashboard.selectedRole = Null \/ dashboard.selectedRole \in HeldTitles(dashboard)
    /\ SummaryRole(dashboard) = dashboard.selectedRole

(* ----------------------------- percent away --------------------------- *)

\* C15: on the Dashboard, percentAway + matchPercent = 100 whenever
\* matchPercent is within 0..100, and percentAway is 100 whenever the held
\* analysis result has no numeric match_percent.
C15_PercentAwayComplement ==
  View(showIntro, analysis) = "dashboard" =>
    /\ (dashboard.matchPercent.t = "number" /\ dashboard.matchPercent.v[1] \in 0..100) =>
         PercentAway(dashboard).v[1] + dashboard.matchPercent.v[1] = 100
    /\ Get(analysis, "match_percent").t # "number" => PercentAway(dashboard) = Num(100)

(* ------------------------- text-only submissions ---------------------- *)

\* request r, still with the client, carries a role and a pasted text and no
\* file
TextOnly(r) ==
  /\ InFlight(r)
  /\ ~requests[r].hasFile
  /\ requests[r].resume_text # ""
  /\ requests[r].target_role \in RoleOptions

HorizonSelected ==
  /\ dashboard'.activeDay # dashboard.activeDay
  /\ ~(\E r \in ReqIds : Arrives(r))

\* C17: a step that selects a horizon that is not a key of the held
\* learning plan (an object without the key, an array, null) leaves the
\* learning-plan block showing the "Learning plan not available yet."
\* placeholder, and the Dashboard renders without throwing.
C17_AbsentHorizonPlaceholder ==
  [][ (HorizonSelected /\ dashboard'.activeDay \notin Keys(dashboard'.plan)) =>
        /\ PlanView(dashboard') = "placeholder"
        /\ ~RenderThrows(dashboard')
    ]_vars

\* the 60-day horizon is selected while a role is selected and the held plan
\* is null; the placeholder shows
C17_Witness ==
  /\ View(showIntro, analysis) = "dashboard"
  /\ Truthy(dashboard.selectedRole)
  /\ dashboard.plan = Null
  /\ dashboard.activeDay = "60_days"
  /\ PlanView(dashboard) = "placeholder"

(* ------------------------- flag and chart claims ---------------------- *)

\* C18: while at least one upload request is in flight the processing flag
\* is true.
C18_FlagCoversInFlight == (\E r \in ReqIds : InFlight(r)) => isProcessing

\* C19: on the Dashboard, when the held analysis result carries an array
\* chart.salary (chart.demand), the salary (demand) chart draws exactly that
\* array; when it carries none, the chart draws the built-in default series.
C19_ChartsShowReceivedSeries ==
  View(showIntro, analysis) = "dashboard" =>
    /\ IsArray(ChartSeries(analysis, "salary")) =>
         RenderedSalary(dashboard) = ChartSeries(analysis, "salary")
    /\ IsArray(ChartSeries(analysis, "demand")) =>
         RenderedDemand(dashboard) = ChartSeries(analysis, "demand")
    /\ (Keys(analysis) # {} /\ Missing("chart")) =>
         /\ RenderedSalary(dashboard) = DashInit.salaryData
         /\ RenderedDemand(dashboard) = DashInit.demandData

============================================================================
